---- MODULE Spec2Model ----
(***************************************************************************)
(* typespeed: a Linux kernel module that counts qualifying key presses in  *)
(* a ring of LENGTH per-second buckets.  The state is the module's static  *)
(* variables (typespeed.c lines 15-24); the processes are the rotation     *)
(* timer callback (softirq context), the /proc readers (process context),  *)
(* the input event handler (interrupt context), the connect/disconnect     *)
(* callbacks of the input core and module load/unload, on an SMP machine   *)
(* with a CPU for every task in flight.  A pc value "Lnn" is the source    *)
(* line the process is about to execute.                                   *)
(***************************************************************************)
EXTENDS Integers, Sequences, FiniteSets, TLC

\* ---- program constants -------------------------------------------------
LENGTH == 60
EV_KEY == 1
KEY_BACKSPACE == 14
KEY_LEFTCTRL == 29
KEY_LEFTSHIFT == 42
KEY_RIGHTSHIFT == 54
KEY_LEFTALT == 56
KEY_CAPSLOCK == 58
KEY_RIGHTCTRL == 97
KEY_RIGHTALT == 100
CODE_LIMIT == 128

\* ---- bounds of the model -----------------------------------------------
MaxInFlight == 2      \* handlers in flight at once
MaxRot == 1           \* rotations, where readers take part
MaxRec == 1           \* record() calls, where readers take part
RaceRot == 2          \* rotations, in the races on events
RaceRec == 2          \* record() calls, in the races on events
MaxType == 2          \* event types delivered run to completion: 0..MaxType
MaxCode == 129        \* event codes delivered run to completion: 0..MaxCode
MaxValue == 2         \* event values: -1..MaxValue (0 up, 1 press, 2 hold)
SeqRec == 5           \* record() calls, run to completion
SeqRot == 1           \* rotations, run to completion
MaxV == 2             \* record() calls per second, in the steady runs
PreRot == 1           \* rotations before the steady run starts
DegRot == 61          \* rotations after a load, with or without the handler
MaxDev == 2           \* keyboards the input core offers to typespeed_connect
MaxConn == 3          \* typespeed_connect calls
RenderRot == 1        \* rotations, where queries render racing counts
RenderRec == 3        \* record() calls, where queries render racing counts

Readers == 1..MaxInFlight
Producers == 1..MaxInFlight
TimerOwner == MaxInFlight + 1
Slots == 0..(LENGTH - 1)
Devices == 1..MaxDev
ENOMEM == 12

VARIABLES
    t, events, total, interval,          \* lines 16-20
    splock,                              \* line 15: 0 free, else the owner
    timer_pending,                       \* line 24: the timer is armed
    proc_entry, handler_registered,      \* what typespeed_init publishes
    pcM,                                 \* typespeed_init / typespeed_exit
    pcT, regT,                           \* timer_callback
    irqd,                                \* the reader whose CPU runs the callback, or 0
    pcR, sum10, sum30, sum, out,         \* typespeed_proc_show, per reader
    pcP, ev, reg,                        \* typespeed_event, per producer
    pcC, dev, handle, ret,               \* typespeed_connect: pc, argument, local, result
    registered, opened,                  \* input core: devices with our handle registered, opened
    nheap, nconn,                        \* handles kzalloc'ed and not freed; connect calls made
    nheap0,                              \* history: nheap when the connect call began
    nrot, nrec,                          \* history: buckets committed, record() calls
    since, clean, pre, atSum,            \* history: see the actions
    run, ovf, novl, entry,
    log                                  \* history: the values committed, oldest first

globals == <<t, events, total, interval>>
lifecycle == <<timer_pending, proc_entry, handler_registered, pcM>>
timerv == <<pcT, regT, irqd>>
readerv == <<pcR, sum10, sum30, sum, out, atSum>>
connv == <<pcC, dev, handle, ret, registered, opened, nheap, nconn, nheap0>>
producerv == <<pcP, ev, reg, connv>>
history == <<nrot, nrec, since, clean, pre, run, ovf, novl, entry, log>>
vars == <<globals, splock, lifecycle, timerv, readerv, producerv, history>>

\* ---- execution contexts ------------------------------------------------
\* timer_callback runs in softirq context on some CPU: it interrupts the task
\* that CPU is running, which resumes only when the callback has returned.
\* spin_lock() (lines 28, 133) disables preemption, not softirqs, so the
\* interrupted task may be a reader anywhere in typespeed_proc_show.
\* typespeed_event runs in interrupt context: nothing holds it up.
ReaderRuns(r) == ~(pcT # "idle" /\ irqd = r)
\* the record() calls between their filter and the end of events++
Recording == {p \in Producers : pcP[p] \in {"L113", "L113w"}}
ProducersIdle == \A p \in Producers : pcP[p] = "idle"
ReadersIdle == \A r \in Readers : pcR[r] = "idle"

\* handlers in flight
InFlight ==
    Cardinality({r \in Readers : pcR[r] # "idle"})
        + Cardinality({p \in Producers : pcP[p] # "idle"})
        + (IF pcT # "idle" THEN 1 ELSE 0)

\* the tasks a timer expiry may interrupt: any reader in flight, or none (0)
Interruptible(r) == IF r = 0 THEN TRUE ELSE pcR[r] # "idle"

\* ---- Event Filter (lines 92-104) ----------------------------------------
IsModifier(code) ==
    code \in {KEY_RIGHTSHIFT, KEY_LEFTSHIFT, KEY_RIGHTCTRL, KEY_LEFTCTRL,
              KEY_RIGHTALT, KEY_LEFTALT, KEY_CAPSLOCK, KEY_BACKSPACE}

\* The filter with its range test off by one: code 128 passes.
IsCountable_upto128(e) ==
    /\ ~(e.type # EV_KEY \/ e.code = 0 \/ e.code > CODE_LIMIT)
    /\ ~(e.value # 1)
    /\ ~IsModifier(e.code)

IsCountable(e) ==
    /\ ~(e.type # EV_KEY \/ e.code = 0 \/ e.code >= CODE_LIMIT)
    /\ ~(e.value # 1)
    /\ ~IsModifier(e.code)

\* ---- window sums (lines 135-144) ----------------------------------------
Bucket(iv, cur, i) == iv[(LENGTH + cur - i) % LENGTH]

RECURSIVE SumFrom(_, _, _, _)
\* the loop "for(; i < hi; i++) acc += interval[(LENGTH + t - i) % LENGTH]"
SumFrom(iv, cur, i, hi) ==
    IF i < hi THEN Bucket(iv, cur, i) + SumFrom(iv, cur, i + 1, hi) ELSE 0

\* ---- seq_printf (lines 148-149) ------------------------------------------
Digit(d) ==
    CASE d = 0 -> "0" [] d = 1 -> "1" [] d = 2 -> "2" [] d = 3 -> "3"
      [] d = 4 -> "4" [] d = 5 -> "5" [] d = 6 -> "6" [] d = 7 -> "7"
      [] d = 8 -> "8" [] d = 9 -> "9"

RECURSIVE Dec(_)
\* "%zd" of a value below 2^63: its decimal digits, no sign, no padding
Dec(n) == IF n < 10 THEN Digit(n) ELSE Dec(n \div 10) \o Digit(n % 10)

\* The line with the raw window sums, not scaled to a minute.
seq_printf_unscaled(s10, s30, s, tot) ==
    Dec(s10) \o " " \o Dec(s30) \o " " \o Dec(s) \o " " \o Dec(tot) \o "\n"

seq_printf(s10, s30, s, tot) ==
    Dec((s10 * LENGTH) \div 10) \o " " \o Dec((s30 * LENGTH) \div 30)
        \o " " \o Dec(s) \o " " \o Dec(tot) \o "\n"

\* ---- initial states ----------------------------------------------------
NoEvent == [type |-> 0, code |-> 0, value |-> 0]
NoPre == [t |-> 0, total |-> 0, k |-> 0, interval |-> [i \in Slots |-> 0]]
NoSum == [nrot |-> 0, total |-> 0]
NoRun == [v |-> 0, n |-> 0, total0 |-> 0]
NoEntry == [t |-> 0, events |-> 0, total |-> 0, interval |-> [i \in Slots |-> 0]]

Zeroed ==
    /\ t = 0 /\ events = 0 /\ total = 0
    /\ interval = [i \in Slots |-> 0]
    /\ splock = 0
    /\ pcT = "idle" /\ regT = 0 /\ irqd = 0
    /\ pcR = [r \in Readers |-> "idle"]
    /\ sum10 = [r \in Readers |-> 0] /\ sum30 = [r \in Readers |-> 0]
    /\ sum = [r \in Readers |-> 0] /\ out = [r \in Readers |-> ""]
    /\ atSum = [r \in Readers |-> NoSum]
    /\ pcP = [p \in Producers |-> "idle"]
    /\ ev = [p \in Producers |-> NoEvent] /\ reg = [p \in Producers |-> 0]
    /\ pcC = "idle" /\ dev = 0 /\ handle = FALSE /\ ret = 0
    /\ registered = {} /\ opened = {} /\ nheap = 0 /\ nconn = 0 /\ nheap0 = 0
    /\ nrot = 0 /\ nrec = 0 /\ since = 0 /\ clean = TRUE
    /\ pre = NoPre
    /\ run = NoRun /\ ovf = [p \in Producers |-> FALSE] /\ novl = 0
    /\ entry = [p \in Producers |-> NoEntry]
    /\ log = <<>>

\* before insmod: the statics are zero, nothing is published
Init ==
    /\ Zeroed
    /\ timer_pending = FALSE /\ proc_entry = FALSE /\ handler_registered = FALSE
    /\ pcM = "L171"

\* typespeed_init has returned with the handler registered and nothing has
\* happened yet
InitLoaded ==
    /\ Zeroed
    /\ timer_pending = TRUE /\ proc_entry = TRUE /\ handler_registered = TRUE
    /\ pcM = "loaded"

\* ---- timer_callback (lines 26-38) ----------------------------------------
\* The timer expires and the callback starts on the CPU of task r (0: of no
\* reader).  pre and clean remember the state the rotation started from and
\* whether a typespeed_event has overlapped it; ovf marks the record() calls
\* that have overlapped a rotation or another record() call, novl counts them.
timer_fire(r, maxRot) ==
    /\ timer_pending /\ pcT = "idle" /\ nrot < maxRot
    /\ InFlight < MaxInFlight
    /\ Interruptible(r)
    /\ timer_pending' = FALSE
    /\ pcT' = "L28" /\ irqd' = r
    /\ clean' = ProducersIdle
    /\ pre' = [t |-> t, total |-> total, k |-> since, interval |-> interval]
    /\ ovf' = [p \in Producers |-> ovf[p] \/ p \in Recording]
    /\ novl' = novl + Cardinality({p \in Recording : ~ovf[p]})
    /\ UNCHANGED <<globals, splock, proc_entry, handler_registered, pcM, regT,
                   readerv, producerv, nrot, nrec, since, run, entry, log>>

\* The callback going on without the lock when it finds it taken.
timer_L28_trylock ==
    /\ pcT = "L28"
    /\ splock' = IF splock = 0 THEN TimerOwner ELSE splock
    /\ pcT' = "L29"
    /\ UNCHANGED <<globals, lifecycle, regT, irqd, readerv, producerv, history>>

\* line 28
timer_L28 ==
    /\ pcT = "L28"
    /\ splock = 0
    /\ splock' = TimerOwner
    /\ pcT' = "L29"
    /\ UNCHANGED <<globals, lifecycle, regT, irqd, readerv, producerv, history>>

\* The cursor wrapping one slot late: "if(++t > LENGTH) t = 0".
timer_L29_latewrap ==
    /\ pcT = "L29"
    /\ t' = IF t + 1 > LENGTH THEN 0 ELSE t + 1
    /\ pcT' = "L30"
    /\ UNCHANGED <<events, total, interval, splock, lifecycle, regT, irqd,
                   readerv, producerv, history>>

\* The cursor wrapping one slot early.
timer_L29_shortring ==
    /\ pcT = "L29"
    /\ t' = (t + 1) % (LENGTH - 1)
    /\ pcT' = "L30"
    /\ UNCHANGED <<events, total, interval, splock, lifecycle, regT, irqd,
                   readerv, producerv, history>>

\* line 29
timer_L29 ==
    /\ pcT = "L29"
    /\ t' = (t + 1) % LENGTH
    /\ pcT' = "L30"
    /\ UNCHANGED <<events, total, interval, splock, lifecycle, regT, irqd,
                   readerv, producerv, history>>

\* The commit written before the cursor moves: it lands in the old slot.
timer_L30_oldslot ==
    /\ pcT = "L30"
    /\ interval' = [interval EXCEPT ![(LENGTH + t - 1) % LENGTH] = events]
    /\ regT' = events
    /\ nrot' = nrot + 1
    /\ log' = Append(log, events)
    /\ run' = IF run.n > 0 /\ run.v = events
              THEN [run EXCEPT !.n = run.n + 1]
              ELSE [v |-> events, n |-> 1, total0 |-> total]
    /\ pcT' = "L31"
    /\ UNCHANGED <<t, events, total, splock, lifecycle, irqd, readerv,
                   producerv, nrec, since, clean, pre, ovf, novl, entry>>

\* run is the current run of rotations that committed the same value: the
\* value, the length, and total before the first of them; log is every value
\* committed so far
timer_L30 ==
    /\ pcT = "L30"
    /\ interval' = [interval EXCEPT ![t] = events]
    /\ regT' = events
    /\ nrot' = nrot + 1
    /\ log' = Append(log, events)
    /\ run' = IF run.n > 0 /\ run.v = events
              THEN [run EXCEPT !.n = run.n + 1]
              ELSE [v |-> events, n |-> 1, total0 |-> total]
    /\ pcT' = "L31"
    /\ UNCHANGED <<t, events, total, splock, lifecycle, irqd, readerv,
                   producerv, nrec, since, clean, pre, ovf, novl, entry>>

\* events is not volatile and is written concurrently by typespeed_event:
\* the addend is the value line 30 read or a second read of events.
timer_L31 ==
    /\ pcT = "L31"
    /\ \E addend \in {regT, events} : total' = total + addend
    /\ pcT' = "L32"
    /\ UNCHANGED <<t, events, interval, splock, lifecycle, regT, irqd, readerv,
                   producerv, history>>

timer_L32 ==
    /\ pcT = "L32"
    /\ splock' = 0
    /\ pcT' = "L34"
    /\ UNCHANGED <<globals, lifecycle, regT, irqd, readerv, producerv, history>>

\* The callback without its reset of events: the count carries over.
timer_L34_noreset ==
    /\ pcT = "L34"
    /\ since' = 0
    /\ pcT' = "L37"
    /\ UNCHANGED <<globals, splock, lifecycle, regT, irqd, readerv,
                   producerv, nrot, nrec, clean, pre, run, ovf, novl, entry,
                   log>>

\* line 34, outside the lock
timer_L34 ==
    /\ pcT = "L34"
    /\ events' = 0
    /\ since' = 0
    /\ pcT' = "L37"
    /\ UNCHANGED <<t, total, interval, splock, lifecycle, regT, irqd, readerv,
                   producerv, nrot, nrec, clean, pre, run, ovf, novl, entry,
                   log>>

\* mod_timer arms the timer again; the callback returns and its locals die
timer_L37 ==
    /\ pcT = "L37"
    /\ timer_pending' = TRUE
    /\ pcT' = "idle" /\ regT' = 0 /\ irqd' = 0
    /\ clean' = TRUE /\ pre' = NoPre
    /\ UNCHANGED <<globals, splock, proc_entry, handler_registered, pcM,
                   readerv, producerv, nrot, nrec, since, run, ovf, novl,
                   entry, log>>

timer_callback ==
    \/ timer_L28 \/ timer_L29 \/ timer_L30 \/ timer_L31
    \/ timer_L32 \/ timer_L34 \/ timer_L37

\* ---- typespeed_proc_show (lines 126-151) ---------------------------------
\* A read of /proc/typespeed enters typespeed_proc_show and takes the lock
\* (line 133); until it has the lock it has touched nothing.  Readers are
\* interchangeable: a new read takes the lowest free index.
show_L133(r) ==
    /\ pcR[r] = "idle" /\ proc_entry
    /\ InFlight < MaxInFlight
    /\ \A q \in Readers : q < r => pcR[q] # "idle"
    /\ splock = 0
    /\ splock' = r
    /\ pcR' = [pcR EXCEPT ![r] = "L135"]
    /\ UNCHANGED <<globals, lifecycle, timerv, sum10, sum30, sum, out, atSum,
                   producerv, history>>

show_L135(r) ==
    /\ pcR[r] = "L135" /\ ReaderRuns(r)
    /\ sum10' = [sum10 EXCEPT ![r] = SumFrom(interval, t, 0, 10)]
    /\ pcR' = [pcR EXCEPT ![r] = "L138"]
    /\ UNCHANGED <<globals, splock, lifecycle, timerv, sum30, sum, out, atSum,
                   producerv, history>>

\* The second loop starting one offset early: offset 9 is summed twice.
show_L138_overlap(r) ==
    /\ pcR[r] = "L138" /\ ReaderRuns(r)
    /\ sum30' = [sum30 EXCEPT ![r] = sum10[r] + SumFrom(interval, t, 9, 30)]
    /\ pcR' = [pcR EXCEPT ![r] = "L142"]
    /\ UNCHANGED <<globals, splock, lifecycle, timerv, sum10, sum, out, atSum,
                   producerv, history>>

\* lines 138-140
show_L138(r) ==
    /\ pcR[r] = "L138" /\ ReaderRuns(r)
    /\ sum30' = [sum30 EXCEPT ![r] = sum10[r] + SumFrom(interval, t, 10, 30)]
    /\ pcR' = [pcR EXCEPT ![r] = "L142"]
    /\ UNCHANGED <<globals, splock, lifecycle, timerv, sum10, sum, out, atSum,
                   producerv, history>>

\* The last loop stopping one bucket short of the ring.
show_L142_short(r) ==
    /\ pcR[r] = "L142" /\ ReaderRuns(r)
    /\ sum' = [sum EXCEPT ![r] =
                  sum30[r] + SumFrom(interval, t, 30, LENGTH - 1)]
    /\ atSum' = [atSum EXCEPT ![r] = [nrot |-> nrot, total |-> total]]
    /\ pcR' = [pcR EXCEPT ![r] = "L146"]
    /\ UNCHANGED <<globals, splock, lifecycle, timerv, sum10, sum30, out,
                   producerv, history>>

\* atSum remembers the state the sums were taken from
show_L142(r) ==
    /\ pcR[r] = "L142" /\ ReaderRuns(r)
    /\ sum' = [sum EXCEPT ![r] = sum30[r] + SumFrom(interval, t, 30, LENGTH)]
    /\ atSum' = [atSum EXCEPT ![r] = [nrot |-> nrot, total |-> total]]
    /\ pcR' = [pcR EXCEPT ![r] = "L146"]
    /\ UNCHANGED <<globals, splock, lifecycle, timerv, sum10, sum30, out,
                   producerv, history>>

\* The query clearing the bucket it has just reported (read-and-clear).
show_L146_clears(r) ==
    /\ pcR[r] = "L146" /\ ReaderRuns(r)
    /\ interval' = [interval EXCEPT ![t] = 0]
    /\ splock' = 0
    /\ pcR' = [pcR EXCEPT ![r] = "L148"]
    /\ UNCHANGED <<t, events, total, lifecycle, timerv, sum10, sum30, sum, out,
                   atSum, producerv, history>>

\* line 146
show_L146(r) ==
    /\ pcR[r] = "L146" /\ ReaderRuns(r)
    /\ splock' = 0
    /\ pcR' = [pcR EXCEPT ![r] = "L148"]
    /\ UNCHANGED <<globals, lifecycle, timerv, sum10, sum30, sum, out, atSum,
                   producerv, history>>

show_L148(r) ==
    /\ pcR[r] = "L148" /\ ReaderRuns(r)
    /\ out' = [out EXCEPT ![r] = seq_printf(sum10[r], sum30[r], sum[r], total)]
    /\ pcR' = [pcR EXCEPT ![r] = "L150"]
    /\ UNCHANGED <<globals, splock, lifecycle, timerv, sum10, sum30, sum, atSum,
                   producerv, history>>

\* return 0: the line goes to the caller and the locals die
show_L150(r) ==
    /\ pcR[r] = "L150" /\ ReaderRuns(r)
    /\ pcR' = [pcR EXCEPT ![r] = "idle"]
    /\ sum10' = [sum10 EXCEPT ![r] = 0]
    /\ sum30' = [sum30 EXCEPT ![r] = 0]
    /\ sum' = [sum EXCEPT ![r] = 0]
    /\ out' = [out EXCEPT ![r] = ""]
    /\ atSum' = [atSum EXCEPT ![r] = NoSum]
    /\ UNCHANGED <<globals, splock, lifecycle, timerv, producerv, history>>

typespeed_proc_show(r) ==
    \/ show_L133(r) \/ show_L135(r) \/ show_L138(r) \/ show_L142(r)
    \/ show_L146(r) \/ show_L148(r) \/ show_L150(r)

\* ---- typespeed_event (lines 89-114) ---------------------------------------
\* The input core delivers event e to the handler, which returns early or
\* goes on to line 113 (lines 92-104).  nrec and since count the calls that
\* go on; for a watched call, entry remembers the statics the call found.
\* Producers are interchangeable: a new call takes the lowest free index.
event_L92(p, e, maxRec, watch) ==
    /\ pcP[p] = "idle" /\ handler_registered
    /\ IsCountable(e) => nrec < maxRec
    /\ InFlight < MaxInFlight
    /\ \A q \in Producers : q < p => pcP[q] # "idle"
    /\ pcP' = [pcP EXCEPT ![p] = IF IsCountable(e) THEN "L113" ELSE "L114"]
    /\ ev' = [ev EXCEPT ![p] = e]
    /\ nrec' = IF IsCountable(e) THEN nrec + 1 ELSE nrec
    /\ since' = IF IsCountable(e) THEN since + 1 ELSE since
    /\ clean' = (clean /\ pcT = "idle")
    /\ LET met == IsCountable(e) /\ (pcT # "idle" \/ Recording # {})
           hit == IF IsCountable(e) THEN Recording ELSE {}
       IN  /\ ovf' = [q \in Producers |->
                        IF q = p THEN met ELSE ovf[q] \/ q \in hit]
           /\ novl' = novl + (IF met THEN 1 ELSE 0)
                            + Cardinality({q \in hit : ~ovf[q]})
    /\ entry' = [entry EXCEPT ![p] =
                    IF watch THEN [t |-> t, events |-> events, total |-> total,
                                   interval |-> interval]
                    ELSE NoEntry]
    /\ UNCHANGED <<globals, splock, lifecycle, timerv, readerv, reg, connv,
                   nrot, pre, run, log>>

\* The increment written as a locked section: the load waits for splock.
event_L113_locked(p) ==
    /\ pcP[p] = "L113"
    /\ splock = 0
    /\ reg' = [reg EXCEPT ![p] = events]
    /\ pcP' = [pcP EXCEPT ![p] = "L113w"]
    /\ UNCHANGED <<globals, splock, lifecycle, timerv, readerv, ev, connv,
                   history>>

\* line 113, events++ on a plain size_t: a load ...
event_L113(p) ==
    /\ pcP[p] = "L113"
    /\ reg' = [reg EXCEPT ![p] = events]
    /\ pcP' = [pcP EXCEPT ![p] = "L113w"]
    /\ UNCHANGED <<globals, splock, lifecycle, timerv, readerv, ev, connv,
                   history>>

\* ... and a store
event_L113w(p) ==
    /\ pcP[p] = "L113w"
    /\ events' = reg[p] + 1
    /\ pcP' = [pcP EXCEPT ![p] = "L114"]
    /\ UNCHANGED <<t, total, interval, splock, lifecycle, timerv, readerv, ev,
                   reg, connv, history>>

\* the handler returns and its arguments die
event_L114(p) ==
    /\ pcP[p] = "L114"
    /\ pcP' = [pcP EXCEPT ![p] = "idle"]
    /\ ev' = [ev EXCEPT ![p] = NoEvent]
    /\ reg' = [reg EXCEPT ![p] = 0]
    /\ ovf' = [ovf EXCEPT ![p] = FALSE]
    /\ entry' = [entry EXCEPT ![p] = NoEntry]
    /\ UNCHANGED <<globals, splock, lifecycle, timerv, readerv, connv, nrot,
                   nrec, since, clean, pre, run, novl, log>>

typespeed_event(p) ==
    \/ event_L113(p) \/ event_L113w(p) \/ event_L114(p)

\* ---- typespeed_connect, typespeed_disconnect (lines 51-87) -----------------
\* The input core offers a keyboard to the handler, one call at a time (it
\* holds its mutex).  handle is the local pointer: FALSE is NULL.
rest == <<globals, splock, lifecycle, timerv, readerv, pcP, ev, reg, history>>

\* line 57: kzalloc gives a zeroed handle or NULL
connect_L57(d) ==
    /\ pcC = "idle" /\ handler_registered
    /\ d \notin registered /\ nconn < MaxConn
    /\ \E ok \in BOOLEAN :
          /\ handle' = ok
          /\ nheap' = IF ok THEN nheap + 1 ELSE nheap
    /\ dev' = d /\ ret' = 0 /\ nconn' = nconn + 1 /\ nheap0' = nheap
    /\ pcC' = "L58"
    /\ UNCHANGED <<rest, registered, opened>>

\* lines 58-63
connect_L58 ==
    /\ pcC = "L58"
    /\ IF handle THEN pcC' = "L65" /\ ret' = ret
                 ELSE pcC' = "return" /\ ret' = 0 - ENOMEM
    /\ UNCHANGED <<rest, dev, handle, registered, opened, nheap, nconn,
                   nheap0>>

\* lines 65-68: input_register_handle succeeds, or fails and goto err
connect_L65 ==
    /\ pcC = "L65"
    /\ \E ok \in BOOLEAN :
          IF ok THEN pcC' = "L70" /\ registered' = registered \cup {dev}
                ELSE pcC' = "L80" /\ registered' = registered
    /\ UNCHANGED <<rest, dev, handle, ret, opened, nheap, nconn, nheap0>>

\* lines 70-73: input_open_device succeeds, or fails and goto unregister
connect_L70 ==
    /\ pcC = "L70"
    /\ \E ok \in BOOLEAN :
          IF ok THEN pcC' = "L75" /\ opened' = opened \cup {dev}
                ELSE pcC' = "L78" /\ opened' = opened
    /\ UNCHANGED <<rest, dev, handle, ret, registered, nheap, nconn, nheap0>>

\* line 75: return 0
connect_L75 ==
    /\ pcC = "L75"
    /\ ret' = 0 /\ pcC' = "return"
    /\ UNCHANGED <<rest, dev, handle, registered, opened, nheap, nconn, nheap0>>

\* line 78: input_unregister_handle
connect_L78 ==
    /\ pcC = "L78"
    /\ registered' = registered \ {dev}
    /\ pcC' = "L80"
    /\ UNCHANGED <<rest, dev, handle, ret, opened, nheap, nconn, nheap0>>

\* line 80: return -1
connect_L80 ==
    /\ pcC = "L80"
    /\ ret' = 0 - 1 /\ pcC' = "return"
    /\ UNCHANGED <<rest, dev, handle, registered, opened, nheap, nconn, nheap0>>

\* the call has returned ret to the input core; its locals die
connect_return ==
    /\ pcC = "return"
    /\ pcC' = "idle" /\ dev' = 0 /\ handle' = FALSE /\ ret' = 0 /\ nheap0' = nheap
    /\ UNCHANGED <<rest, registered, opened, nheap, nconn>>

typespeed_connect ==
    \/ connect_L58 \/ connect_L65 \/ connect_L70 \/ connect_L75
    \/ connect_L78 \/ connect_L80 \/ connect_return

\* lines 85-86: the keyboard goes away; the handle is closed and unregistered
typespeed_disconnect(d) ==
    /\ pcC = "idle" /\ d \in opened
    /\ opened' = opened \ {d}
    /\ registered' = registered \ {d}
    /\ UNCHANGED <<rest, pcC, dev, handle, ret, nheap, nconn, nheap0>>

\* ---- typespeed_init (lines 167-181) ---------------------------------------
init_L171 ==
    /\ pcM = "L171"
    /\ timer_pending' = TRUE
    /\ pcM' = "L174"
    /\ UNCHANGED <<globals, splock, proc_entry, handler_registered, timerv,
                   readerv, producerv, history>>

init_L174 ==
    /\ pcM = "L174"
    /\ proc_entry' = TRUE
    /\ pcM' = "L176"
    /\ UNCHANGED <<globals, splock, timer_pending, handler_registered, timerv,
                   readerv, producerv, history>>

\* typespeed_init unwinding when the handler cannot be registered: the timer
\* is deleted and the proc entry removed before it returns.
init_L176_unwinds ==
    /\ pcM = "L176"
    /\ \E ok \in BOOLEAN :
          /\ handler_registered' = ok
          /\ timer_pending' = (ok /\ timer_pending)
          /\ proc_entry' = ok
    /\ pcM' = "loaded"
    /\ UNCHANGED <<globals, splock, timerv, readerv, producerv, history>>

\* input_register_handler succeeds or fails; init returns 0 either way
init_L176 ==
    /\ pcM = "L176"
    /\ \E ok \in BOOLEAN : handler_registered' = ok
    /\ pcM' = "loaded"
    /\ UNCHANGED <<globals, splock, timer_pending, proc_entry, timerv,
                   readerv, producerv, history>>

typespeed_init == init_L171 \/ init_L174 \/ init_L176

\* ---- typespeed_exit (lines 183-190) ---------------------------------------
\* del_timer removes a pending timer and does not wait for a running callback
exit_L185 ==
    /\ pcM = "loaded"
    /\ timer_pending' = FALSE
    /\ pcM' = "L186"
    /\ UNCHANGED <<globals, splock, proc_entry, handler_registered, timerv,
                   readerv, producerv, history>>

\* remove_proc_entry waits for the reads in flight
exit_L186 ==
    /\ pcM = "L186"
    /\ ReadersIdle
    /\ proc_entry' = FALSE
    /\ pcM' = "L187"
    /\ UNCHANGED <<globals, splock, timer_pending, handler_registered, timerv,
                   readerv, producerv, history>>

\* input_unregister_handler waits for the events in flight
exit_L187 ==
    /\ pcM = "L187"
    /\ ProducersIdle
    /\ handler_registered' = FALSE
    /\ pcM' = "L188"
    /\ UNCHANGED <<globals, splock, timer_pending, proc_entry, timerv,
                   readerv, producerv, history>>

exit_L188 ==
    /\ pcM = "L188"
    /\ pcM' = "exited"
    /\ UNCHANGED <<globals, splock, timer_pending, proc_entry,
                   handler_registered, timerv, readerv, producerv, history>>

typespeed_exit == exit_L185 \/ exit_L186 \/ exit_L187 \/ exit_L188

\* ---- the whole module ----------------------------------------------------
\* events the concurrent specifications deliver: a letter pressed, left
\* shift pressed
SomeEvents ==
    { [type |-> EV_KEY, code |-> 30, value |-> 1],
      [type |-> EV_KEY, code |-> KEY_LEFTSHIFT, value |-> 1] }

\* the loaded module: rotations, queries and key events
NextLoaded ==
    \/ \E r \in {0} \cup Readers : timer_fire(r, MaxRot)
    \/ timer_callback
    \/ \E r \in Readers : typespeed_proc_show(r)
    \/ \E p \in Producers, e \in SomeEvents : event_L92(p, e, MaxRec, FALSE)
    \/ \E p \in Producers : typespeed_event(p)

SpecLock == InitLoaded /\ [][NextLoaded]_vars

\* insmod to rmmod
Next ==
    \/ typespeed_init
    \/ typespeed_exit
    \/ NextLoaded

Spec == Init /\ [][Next]_vars

\* the races on events: rotations and key events, no reader
NextRace ==
    \/ timer_fire(0, RaceRot)
    \/ timer_callback
    \/ \E p \in Producers, e \in SomeEvents : event_L92(p, e, RaceRec, FALSE)
    \/ \E p \in Producers : typespeed_event(p)

SpecRace == InitLoaded /\ [][NextRace]_vars

\* one handler at a time, each run to completion
Quiet == InFlight = 0

\* every event (type, code, value) within the bounds
AllEvents ==
    [type : 0..MaxType, code : 0..MaxCode, value : (-1)..MaxValue]

NextSeq ==
    \/ Quiet /\ timer_fire(0, SeqRot)
    \/ timer_callback
    \/ \E r \in Readers : (pcR[r] = "idle" => Quiet) /\ typespeed_proc_show(r)
    \/ Quiet /\ \E p \in Producers, e \in AllEvents : event_L92(p, e, SeqRec, TRUE)
    \/ \E p \in Producers : typespeed_event(p)

SpecSeq == InitLoaded /\ [][NextSeq]_vars

\* a letter pressed
KeyPress == [type |-> EV_KEY, code |-> 30, value |-> 1]

\* Steady typing, one handler at a time: after PreRot rotations of any
\* content, the timer fires only on seconds that count as many presses as
\* the second before, for LENGTH seconds.
NextSteady ==
    \/ /\ Quiet
       /\ IF nrot <= PreRot THEN TRUE ELSE events = run.v
       /\ timer_fire(0, PreRot + LENGTH)
    \/ timer_callback
    \/ \E r \in Readers : (pcR[r] = "idle" => Quiet) /\ typespeed_proc_show(r)
    \/ /\ Quiet /\ events < MaxV
       /\ \E p \in Producers : event_L92(p, KeyPress, nrec + 1, FALSE)
    \/ \E p \in Producers : typespeed_event(p)

SpecSteady == InitLoaded /\ [][NextSteady]_vars

\* no rotation and no typespeed_event call is in flight
NoWriter == pcT = "idle" /\ ProducersIdle

\* Queries side by side; rotations and key presses happen only while no
\* query is in flight, and queries start only between them.
NextQuery ==
    \/ Quiet /\ timer_fire(0, MaxRot)
    \/ timer_callback
    \/ \E r \in Readers : (pcR[r] = "idle" => NoWriter) /\ typespeed_proc_show(r)
    \/ Quiet /\ \E p \in Producers : event_L92(p, KeyPress, MaxRec, FALSE)
    \/ \E p \in Producers : typespeed_event(p)

SpecQuery == InitLoaded /\ [][NextQuery]_vars

\* A load whose handler registration succeeds or fails, with rotations and
\* queries one at a time from the moment each is set up; key presses, where
\* the handler is registered, in the first second.
NextDegraded ==
    \/ typespeed_init
    \/ Quiet /\ timer_fire(0, DegRot)
    \/ timer_callback
    \/ \E r \in Readers : (pcR[r] = "idle" => Quiet) /\ typespeed_proc_show(r)
    \/ /\ Quiet /\ nrot = 0
       /\ \E p \in Producers : event_L92(p, KeyPress, MaxRec, FALSE)
    \/ \E p \in Producers : typespeed_event(p)

SpecDegraded == Init /\ [][NextDegraded]_vars

\* Rings a loaded module can hold: one counted press in any one second of
\* the last minute, or seconds of differing counts.
RingSamples ==
    {[i \in Slots |-> IF i = j THEN 1 ELSE 0] : j \in Slots}
        \cup {[i \in Slots |-> (i + s) % (MaxV + 2)] : s \in 0..(MaxV + 1)}

RECURSIVE RingSum(_, _)
RingSum(iv, n) == IF n = 0 THEN 0 ELSE iv[n - 1] + RingSum(iv, n - 1)

\* the loaded module at rest with the cursor anywhere and a sample ring
InitSums ==
    /\ t \in Slots /\ interval \in RingSamples
    /\ events = 0 /\ total = RingSum(interval, LENGTH)
    /\ splock = 0
    /\ pcT = "idle" /\ regT = 0 /\ irqd = 0
    /\ pcR = [r \in Readers |-> "idle"]
    /\ sum10 = [r \in Readers |-> 0] /\ sum30 = [r \in Readers |-> 0]
    /\ sum = [r \in Readers |-> 0] /\ out = [r \in Readers |-> ""]
    /\ atSum = [r \in Readers |-> NoSum]
    /\ pcP = [p \in Producers |-> "idle"]
    /\ ev = [p \in Producers |-> NoEvent] /\ reg = [p \in Producers |-> 0]
    /\ pcC = "idle" /\ dev = 0 /\ handle = FALSE /\ ret = 0
    /\ registered = {} /\ opened = {} /\ nheap = 0 /\ nconn = 0 /\ nheap0 = 0
    /\ nrot = 0 /\ nrec = 0 /\ since = 0 /\ clean = TRUE
    /\ pre = NoPre
    /\ run = NoRun /\ ovf = [p \in Producers |-> FALSE] /\ novl = 0
    /\ entry = [p \in Producers |-> NoEntry]
    /\ log = <<>>
    /\ timer_pending = TRUE /\ proc_entry = TRUE /\ handler_registered = TRUE
    /\ pcM = "loaded"

\* queries, one at a time
NextSums ==
    \E r \in Readers : (pcR[r] = "idle" => Quiet) /\ typespeed_proc_show(r)

SpecSums == InitSums /\ [][NextSums]_vars

\* a reader past spin_lock goes on to its return
show_rest(r) ==
    \/ show_L135(r) \/ show_L138(r) \/ show_L142(r)
    \/ show_L146(r) \/ show_L148(r) \/ show_L150(r)

\* Every CPU keeps executing: a reader that has the lock and a handler in
\* flight take their next step when they can, and so does a callback, which
\* gets the lock it waits for at line 28 if the lock keeps coming free
\* (spinlocks are handed over in the order of arrival).
SpecLockFair ==
    /\ SpecLock
    /\ SF_vars(timer_callback)
    /\ \A r \in Readers : WF_vars(show_rest(r))
    /\ \A p \in Producers : WF_vars(typespeed_event(p))

\* keyboards come and go while the handler is registered
NextConnect ==
    \/ \E d \in Devices : connect_L57(d)
    \/ typespeed_connect
    \/ \E d \in Devices : typespeed_disconnect(d)

SpecConnect == InitLoaded /\ [][NextConnect]_vars

\* queries, a rotation and racing key presses
NextRender ==
    \/ timer_fire(0, RenderRot)
    \/ timer_callback
    \/ \E r \in Readers : typespeed_proc_show(r)
    \/ \E p \in Producers : event_L92(p, KeyPress, RenderRec, FALSE)
    \/ \E p \in Producers : typespeed_event(p)

SpecRender == InitLoaded /\ [][NextRender]_vars

\* ---- the claims ---------------------------------------------------------

\* C1: timer_callback and typespeed_proc_show never deadlock on splock: no
\* state has the callback spinning at line 28 on the CPU of the reader that
\* holds the lock.  In such a state the callback waits for the reader and the
\* reader cannot run before the callback returns, so the lock is never
\* released and neither operation completes.
C1_NoDeadlock ==
    ~(pcT = "L28" /\ irqd # 0 /\ splock = irqd)

\* C2: once typespeed_exit has returned, no rotation tick is pending and
\* timer_callback is not running.
C2_ExitStopsTimer ==
    pcM = "exited" => (~timer_pending /\ pcT = "idle")

\* C3: the total in the line a query renders is the value total had in the
\* state its three sums were taken from.
C3_TotalPairedWithSums ==
    \A r \in Readers :
        pcR[r] = "L150" =>
            out[r] = seq_printf(sum10[r], sum30[r], sum[r], atSum[r].total)

\* C4: when every record() call has completed before the first rotation
\* starts, that rotation commits the number of calls made.
C4_NoLostIncrement ==
    (pcT = "L31" /\ nrot = 1 /\ clean) => interval[t] = nrec

\* C5 as claimed: after two rotations, the second with no concurrent
\* record(), the two committed buckets add up to the number of record() calls
\* give or take one.
C5_MiscountAtMostOne ==
    (pcT = "L37" /\ nrot = 2 /\ clean) =>
        LET s == interval[t] + interval[(LENGTH + t - 1) % LENGTH]
        IN  s - nrec <= 1 /\ nrec - s <= 1

\* C5 as amended: after two rotations, the second with no concurrent
\* record(), the two committed buckets fall short of the number of record()
\* calls by at most the number of calls that overlapped the first rotation or
\* another call, and they exceed it only if some call overlapped, then by at
\* most the first committed value (a stale store of the old value + 1).
C5_MiscountBounded ==
    (pcT = "L37" /\ nrot = 2 /\ clean) =>
        LET c2 == interval[t]
            c1 == interval[(LENGTH + t - 1) % LENGTH]
        IN  /\ nrec - novl <= c1 + c2
            /\ c1 + c2 <= nrec + (IF novl > 0 THEN c1 ELSE 0)

\* Two record() calls fell between the commit and the reset of one rotation:
\* both are missing from the two committed buckets.
C5_TwoLost ==
    /\ pcT = "L37" /\ nrot = 2 /\ clean
    /\ nrec - (interval[t] + interval[(LENGTH + t - 1) % LENGTH]) = 2

\* C6: a record() call in flight can always take its next step, whoever holds
\* the consistency lock: typespeed_event never waits.
C6_RecordNeverBlocks ==
    \A p \in Producers : pcP[p] # "idle" => ENABLED typespeed_event(p)

\* A record() call is past its load of events while the timer callback or a
\* reader holds the lock.
C6_RecordsUnderLock ==
    \E p \in Producers : pcP[p] = "L113w" /\ splock # 0

\* the condition of C7 on an event, in the claim's words
Qualifies(e) ==
    /\ e.type = EV_KEY
    /\ 1 <= e.code /\ e.code < 128
    /\ e.value = 1
    /\ e.code \notin {KEY_LEFTSHIFT, KEY_RIGHTSHIFT, KEY_LEFTCTRL,
                      KEY_RIGHTCTRL, KEY_LEFTALT, KEY_RIGHTALT, KEY_CAPSLOCK,
                      KEY_BACKSPACE}

\* C7: a typespeed_event call that runs alone returns with events one above
\* what it found if and only if its event is a key press with 1 <= code < 128
\* that is no shift, control, alt, caps-lock or backspace; otherwise events is
\* as found; t, total and interval are as found in every case.
C7_FilterDecides ==
    \A p \in Producers :
        pcP[p] = "L114" =>
            /\ events = entry[p].events + (IF Qualifies(ev[p]) THEN 1 ELSE 0)
            /\ t = entry[p].t
            /\ total = entry[p].total
            /\ interval = entry[p].interval

\* A left-shift press returns having changed nothing, after an earlier letter
\* was counted.
C7_ShiftIgnored ==
    \E p \in Producers :
        /\ pcP[p] = "L114"
        /\ ev[p] = [type |-> EV_KEY, code |-> KEY_LEFTSHIFT, value |-> 1]
        /\ events = entry[p].events /\ events > 0

\* C8: with no record() concurrent to it, a rotation that follows k record()
\* calls since the last reset leaves the cursor at (cursor + 1) mod 60, k in
\* the bucket at the new cursor and every other bucket as it was, total
\* larger by k, and events at 0.
C8_RotateCommits ==
    (pcT = "L37" /\ clean) =>
        /\ t = (pre.t + 1) % 60
        /\ interval = [pre.interval EXCEPT ![t] = pre.k]
        /\ total = pre.total + pre.k
        /\ events = 0

\* A rotation from the last slot wraps the cursor to slot 0 and commits a
\* nonzero count there.
C8_WrapsAround ==
    /\ pcT = "L37" /\ clean
    /\ pre.t = LENGTH - 1 /\ t = 0
    /\ pre.k > 0 /\ interval[0] = pre.k /\ total > pre.k

\* C9: from the zeroed state, k >= 1 record() calls, one rotation and then a
\* query give one nonzero bucket, k at the cursor, sums (k, k, k) and total k,
\* and the line "6k 2k k k\n"; for k = 5 the line is "30 10 5 5\n".  The
\* figures are sum10 * 60 / 10, sum30 * 60 / 30, sum and total, in that order.
C9_FreshScenario ==
    \A r \in Readers :
        (pcR[r] = "L150" /\ nrot = 1 /\ since = 0 /\ nrec >= 1) =>
            LET k == nrec
            IN  /\ {i \in Slots : interval[i] # 0} = {t}
                /\ interval[t] = k
                /\ sum10[r] = k /\ sum30[r] = k /\ sum[r] = k /\ total = k
                /\ out[r] = Dec(6 * k) \o " " \o Dec(2 * k) \o " " \o Dec(k)
                                \o " " \o Dec(k) \o "\n"
                /\ out[r] = Dec((sum10[r] * 60) \div 10) \o " "
                                \o Dec((sum30[r] * 60) \div 30) \o " "
                                \o Dec(sum[r]) \o " " \o Dec(total) \o "\n"
                /\ k = 5 => out[r] = "30 10 5 5\n"

\* Five presses, one rotation, and the query has rendered its line.
C9_FivePresses ==
    \E r \in Readers :
        /\ pcR[r] = "L150" /\ nrot = 1 /\ since = 0 /\ nrec = 5
        /\ out[r] = "30 10 5 5\n"

\* C10: a query made when the last 60 rotations have each committed the same
\* value v finds sum10 = 10v, sum30 = 30v, sum = 60v, and total 60v above its
\* value before those rotations.
C10_SteadyMinute ==
    \A r \in Readers :
        (pcR[r] = "L150" /\ run.n = 60) =>
            /\ sum10[r] = 10 * run.v
            /\ sum30[r] = 30 * run.v
            /\ sum[r] = 60 * run.v
            /\ total = run.total0 + 60 * run.v

\* A minute of MaxV presses a second, after a second of a different count.
C10_FullMinute ==
    \E r \in Readers :
        /\ pcR[r] = "L150" /\ run.n = 60
        /\ run.v = MaxV /\ run.total0 > 0 /\ sum[r] = 60 * MaxV

\* C11: a step of typespeed_proc_show leaves t, events, total and interval
\* as they were, and two queries with no rotation and no record() between
\* them hold the same sums and the same rendered line.
C11_QueryIdempotent ==
    /\ [](\A r1, r2 \in Readers :
            (pcR[r1] = "L150" /\ pcR[r2] = "L150") =>
                /\ out[r1] = out[r2]
                /\ <<sum10[r1], sum30[r1], sum[r1]>>
                       = <<sum10[r2], sum30[r2], sum[r2]>>)
    /\ [][pcR' # pcR => globals' = globals]_vars

\* Two queries made after one counted press and one rotation both hold the
\* line "6 2 1 1\n".
C11_TwoQueries ==
    \E r1, r2 \in Readers :
        /\ r1 # r2 /\ pcR[r1] = "L150" /\ pcR[r2] = "L150"
        /\ out[r1] = "6 2 1 1\n" /\ out[r2] = "6 2 1 1\n"

\* C12: typespeed_init returns with the proc entry published and one timer
\* tick pending or running, whether or not the handler was registered; when
\* it was not, no record() happens, total stays 0 and every query renders
\* "0 0 0 0\n" with all three sums 0, after any number of rotations.
C12_DegradedStaysZero ==
    /\ pcM = "loaded" => (proc_entry /\ (timer_pending # (pcT # "idle")))
    /\ (pcM = "loaded" /\ ~handler_registered) =>
          /\ nrec = 0 /\ total = 0
          /\ \A r \in Readers :
                pcR[r] = "L150" =>
                    /\ out[r] = "0 0 0 0\n"
                    /\ sum10[r] = 0 /\ sum30[r] = 0 /\ sum[r] = 0

\* The handler was not registered, the ring has gone round once, and a query
\* has rendered the all-zero line.
C12_ZeroAfterMinute ==
    /\ pcM = "loaded" /\ ~handler_registered /\ nrot >= 60
    /\ \E r \in Readers : pcR[r] = "L150" /\ out[r] = "0 0 0 0\n"

\* the value committed k rotations ago, 0 if there was no such rotation
Committed(k) == IF k < Len(log) THEN log[Len(log) - k] ELSE 0

\* C13: whenever splock is free, for every k in 0..59 the bucket k behind the
\* cursor holds the value committed k rotations ago, or 0 if fewer than k + 1
\* rotations have happened.
C13_RingHoldsLastMinute ==
    splock = 0 =>
        \A k \in 0..59 : interval[(t - k) % 60] = Committed(k)

\* The 61st rotation has overwritten the bucket of the first: the ring holds
\* the last 60 values and the first, a different one, is gone.
C13_FirstOverwritten ==
    /\ splock = 0 /\ pcT = "idle" /\ Len(log) = 61
    /\ log[1] # log[61] /\ interval[t] = log[61] /\ log[61] > 0

RECURSIVE WindowAfter(_, _)
\* the sum of the w last values committed by the first n rotations
WindowAfter(n, w) ==
    IF w = 0 \/ n = 0 THEN 0 ELSE log[n] + WindowAfter(n - 1, w - 1)

\* C14: no rotation is inside its locked section while a reader holds splock,
\* and the three sums of a query are the 10, 30 and 60 last values committed
\* by one and the same number of complete rotations.
C14_SumsFromOneState ==
    \A r \in Readers :
        /\ splock = r => pcT \notin {"L29", "L30", "L31", "L32"}
        /\ pcR[r] \in {"L146", "L148", "L150"} =>
              /\ sum10[r] = WindowAfter(atSum[r].nrot, 10)
              /\ sum30[r] = WindowAfter(atSum[r].nrot, 30)
              /\ sum[r] = WindowAfter(atSum[r].nrot, 60)

\* A query has taken its sums from the ring before a rotation that is waiting
\* at line 28 for the lock, with a press still uncommitted.
C14_RotationHeldOff ==
    \E r \in Readers :
        /\ pcR[r] = "L146" /\ splock = r
        /\ pcT = "L28" /\ events = 1 /\ sum[r] = 0

RECURSIVE SumOver(_, _)
\* the sum of the buckets whose slots are in S
SumOver(iv, S) ==
    IF S = {} THEN 0
    ELSE LET x == CHOOSE y \in S : TRUE
         IN  iv[x] + SumOver(iv, S \ {x})

\* the slots at offsets lo..hi behind the cursor
Behind(cur, lo, hi) == {(cur - k) % 60 : k \in lo..hi}

\* C15: for every cursor and ring, 60 + t - i is positive and
\* (60 + t - i) mod 60 runs through every slot once for i = 0..59; sum10 is
\* the sum of the buckets 0..9 behind the cursor, sum30 is sum10 plus those
\* 10..29 behind, sum is sum30 plus those 30..59 behind and is the sum of all
\* 60 buckets, and sum10 <= sum30 <= sum.
C15_NestedWindows ==
    \A r \in Readers :
        pcR[r] \in {"L146", "L148", "L150"} =>
            /\ \A i \in 0..59 :
                  60 + t - i > 0 /\ (60 + t - i) % 60 \in 0..59
            /\ Cardinality({(60 + t - i) % 60 : i \in 0..59}) = 60
            /\ sum10[r] = SumOver(interval, Behind(t, 0, 9))
            /\ sum30[r] = sum10[r] + SumOver(interval, Behind(t, 10, 29))
            /\ sum[r] = sum30[r] + SumOver(interval, Behind(t, 30, 59))
            /\ sum[r] = SumOver(interval, 0..59)
            /\ sum10[r] <= sum30[r] /\ sum30[r] <= sum[r]

\* With the cursor at slot 0 the only press lies 9 seconds back, in slot 51:
\* the window has wrapped and all three sums count it once.
C15_WrappedWindow ==
    \E r \in Readers :
        /\ pcR[r] = "L150" /\ t = 0 /\ interval[51] = 1
        /\ sum10[r] = 1 /\ sum30[r] = 1 /\ sum[r] = 1

\* C16: t is in 0..59 and equals the number of rotations modulo 60, counting
\* the rotation in progress once it has passed line 29 (so t is 0 at startup);
\* t changes only at line 29 of timer_callback, by one modulo 60.
C16_CursorCountsRotations ==
    /\ [](/\ t \in 0..59
          /\ t = (IF pcT = "L30" THEN nrot + 1 ELSE nrot) % 60)
    /\ [][t' # t => (pcT = "L29" /\ pcT' = "L30" /\ t' = (t + 1) % 60)]_vars

\* Sixty rotations have brought the cursor back to slot 0.
C16_BackAtZero ==
    nrot = 60 /\ t = 0 /\ pcT = "idle"

\* C17: total never decreases, changes only at line 31 of timer_callback
\* with splock held by the callback, and whenever splock is free it is the sum
\* of all the values rotations have committed to buckets.
C17_TotalIsSumCommitted ==
    /\ [](splock = 0 => total = WindowAfter(Len(log), Len(log)))
    /\ [][/\ total' >= total
          /\ total' # total => (pcT = "L31" /\ splock = TimerOwner)]_vars

\* C18: while the module is loaded exactly one tick is pending or running,
\* and every tick that fires runs to its end and leaves the next one armed:
\* rotation goes on.
C18_RotationRecurs ==
    /\ [](pcM = "loaded" => (timer_pending # (pcT # "idle")))
    /\ ((pcT # "idle") ~> (pcT = "idle" /\ timer_pending))

\* C19: a typespeed_connect call that has not opened its device returns a
\* nonzero value, and a call that returns a nonzero value leaves no handle
\* registered for its device, the device not opened, and as many handles
\* allocated as when it began.
C19_FailedConnectLeavesNothing ==
    pcC = "return" =>
        /\ dev \notin opened => ret # 0
        /\ ret # 0 =>
              /\ dev \notin registered /\ dev \notin opened
              /\ nheap = nheap0

\* C20: in the line a query has rendered, the third figure, its 60-second
\* sum, is at most the fourth, the total it read.
C20_WindowWithinTotal ==
    \A r \in Readers :
        pcR[r] = "L150" =>
            \E tot \in 0..total :
                /\ out[r] = seq_printf(sum10[r], sum30[r], sum[r], tot)
                /\ sum[r] <= tot

====
